---------------------------- MODULE Spec2Model ----------------------------
(***************************************************************************)
(* Gate-level netlist parser, leveler and simulator (src/parser.py,        *)
(* src/simulation.py).                                                     *)
(*                                                                         *)
(* A netlist text is modelled after comment removal and the split on ';':  *)
(* a sequence of statements, each statement already cut into the pieces    *)
(* the three regular expressions of parse_netlist_text look at (leading    *)
(* word, optional instance name, identifiers found by find_identifiers).   *)
(* Python's None is NoLevel for Gate.level, NoName for Gate.name and       *)
(* NoValue for a signal without a value.                                   *)
(***************************************************************************)
EXTENDS Integers, Sequences, FiniteSets, TLC

VARIABLES
    text,          \* the statements handed to parse_netlist_text
    netlist,       \* the Netlist object (inputs, outputs, wires, gates)
    pc,            \* position of the driver: which call completed last
    input_values,  \* the dict handed to simulate
    outcome,       \* what the last simulate / evaluate_gate call produced
    ev_gate,       \* evaluate_gate's gate argument (stand-alone calls)
    ev_values      \* evaluate_gate's signal_values argument

vars == <<text, netlist, pc, input_values, outcome, ev_gate, ev_values>>

-----------------------------------------------------------------------------
(* Bounds of the model *)

\* total number of port identifiers over all gate statements of a text that
\* is parsed and leveled
MaxPorts == 4
\* the same for a text that is parsed, leveled and then simulated or edited
MaxSimPorts == 3
\* longest input list of a gate handed to evaluate_gate on its own
MaxEvalInputs == 3
\* number of statements of a text handed to the parser on its own
MaxStmts == 3

Signals == {"a", "x", "y"}
SignalOrder == <<"a", "x", "y">>

\* Gate.level = None, Gate.name = None, signal_values.get(.., None)
NoLevel == 0
NoName == "None"
NoValue == -1

\* the operators evaluate_gate knows
GateTypes == {"nand", "and", "or", "nor", "xor", "not"}

-----------------------------------------------------------------------------
(* parser.py *)

Gate(gtype, name, output, inputs) ==
    [gtype |-> gtype, name |-> name, output |-> output, inputs |-> inputs,
     level |-> NoLevel]

RECURSIVE unique_preserve(_)
unique_preserve(seq) ==
    IF seq = <<>> THEN <<>>
    ELSE LET front == unique_preserve(SubSeq(seq, 1, Len(seq) - 1))
             x == seq[Len(seq)]
         IN  IF \E i \in 1..Len(front) : front[i] = x THEN front
             ELSE Append(front, x)

EmptyNetlist == [inputs |-> <<>>, outputs |-> <<>>, wires |-> <<>>, gates |-> <<>>]

\* str.lower() on the leading words the texts use
Lower(word) ==
    CASE word = "NAND" -> "nand"
      [] word = "Input" -> "input"
      [] OTHER -> word

\* one iteration of the statement loop of parse_netlist_text on the lists
\* built so far (acc holds inputs, outputs, wires, gates)
ParseStatement(acc, stmt) ==
    IF stmt.head \in {"module", "endmodule"} THEN acc
    ELSE IF Lower(stmt.head) \in {"input", "output", "wire"} THEN
        IF Lower(stmt.head) = "input" THEN [acc EXCEPT !.inputs = @ \o stmt.ids]
        ELSE IF Lower(stmt.head) = "output" THEN [acc EXCEPT !.outputs = @ \o stmt.ids]
        ELSE [acc EXCEPT !.wires = @ \o stmt.ids]
    ELSE IF stmt.parens THEN
        IF stmt.ids # <<>>
        THEN [acc EXCEPT !.gates =
                 Append(@, Gate(Lower(stmt.head), stmt.name,
                                Head(stmt.ids), Tail(stmt.ids)))]
        ELSE acc
    ELSE acc

RECURSIVE ParseStatements(_, _)
ParseStatements(acc, statements) ==
    IF statements = <<>> THEN acc
    ELSE ParseStatements(ParseStatement(acc, Head(statements)), Tail(statements))

parse_netlist_text(t) ==
    LET acc == ParseStatements(EmptyNetlist, t)
    IN  [inputs |-> unique_preserve(acc.inputs),
         outputs |-> unique_preserve(acc.outputs),
         wires |-> unique_preserve(acc.wires),
         gates |-> acc.gates]

SeqToSet(s) == {s[i] : i \in 1..Len(s)}

\* line 99 with any() in place of all(): one known input is enough
ReadyAny(gate, known_signals) ==
    \E i \in 1..Len(gate.inputs) : gate.inputs[i] \in known_signals

\* line 99 skipping the gates that already carry a level
ReadyUnleveled(gate, known_signals) ==
    /\ gate.level = NoLevel
    /\ \A i \in 1..Len(gate.inputs) : gate.inputs[i] \in known_signals

\* the test of line 99: every input of the gate is a known signal
Ready(gate, known_signals) ==
    \A i \in 1..Len(gate.inputs) : gate.inputs[i] \in known_signals

\* the for loop of lines 98-101: the remaining gates that get level_num
CurrentLevel(gates, remaining_gates, known_signals) ==
    SelectSeq(remaining_gates, LAMBDA g : Ready(gates[g], known_signals))

\* the while loop of assign_levels; remaining_gates holds gate positions.
\* Returns the gates as the call leaves them and whether it raised.
RECURSIVE LevelLoop(_, _, _, _)
LevelLoop(gates, remaining_gates, known_signals, level_num) ==
    IF remaining_gates = <<>> THEN [gates |-> gates, raised |-> FALSE]
    ELSE LET current_level == CurrentLevel(gates, remaining_gates, known_signals)
             leveled == [g \in 1..Len(gates) |->
                            IF g \in SeqToSet(current_level)
                            THEN [gates[g] EXCEPT !.level = level_num]
                            ELSE gates[g]]
         IN  IF current_level = <<>> THEN [gates |-> leveled, raised |-> TRUE]
             ELSE LevelLoop(leveled,
                            SelectSeq(remaining_gates,
                                      LAMBDA g : leveled[g].level = NoLevel),
                            known_signals \cup
                                {leveled[g].output : g \in SeqToSet(current_level)},
                            level_num + 1)

assign_levels(nl) ==
    LevelLoop(nl.gates, [g \in 1..Len(nl.gates) |-> g], SeqToSet(nl.inputs), 1)

-----------------------------------------------------------------------------
(* simulation.py *)

\* what a call produced: the returned value, or the exception raised
Return(v) == [kind |-> "return", value |-> v]
Raise(exception, message) == [kind |-> exception, value |-> message]

RECURSIVE Sum(_)
Sum(inputs) == IF inputs = <<>> THEN 0 ELSE Head(inputs) + Sum(Tail(inputs))

\* Python's all() and any() on a list of integers
all(inputs) == \A i \in 1..Len(inputs) : inputs[i] # 0
any(inputs) == \E i \in 1..Len(inputs) : inputs[i] # 0

\* lines 10-34 with xor taken over the first two operands only
GateOutputPairwiseXor(gtype, inputs) ==
    CASE gtype = "nand" -> Return(IF all(inputs) THEN 0 ELSE 1)
      [] gtype = "and"  -> Return(IF all(inputs) THEN 1 ELSE 0)
      [] gtype = "or"   -> Return(IF any(inputs) THEN 1 ELSE 0)
      [] gtype = "nor"  -> Return(IF any(inputs) THEN 0 ELSE 1)
      [] gtype = "xor"  -> Return(IF Len(inputs) < 2 THEN Sum(inputs) % 2
                                  ELSE (inputs[1] + inputs[2]) % 2)
      [] gtype = "not"  -> IF inputs = <<>>
                           THEN Raise("IndexError", "list index out of range")
                           ELSE Return(IF inputs[1] # 0 THEN 0 ELSE 1)
      [] OTHER -> Raise("NotImplementedError", "gate type not supported")

\* lines 10-34 of evaluate_gate: the value by gate type, inputs all known
GateOutput(gtype, inputs) ==
    CASE gtype = "nand" -> Return(IF all(inputs) THEN 0 ELSE 1)
      [] gtype = "and"  -> Return(IF all(inputs) THEN 1 ELSE 0)
      [] gtype = "or"   -> Return(IF any(inputs) THEN 1 ELSE 0)
      [] gtype = "nor"  -> Return(IF any(inputs) THEN 0 ELSE 1)
      [] gtype = "xor"  -> Return(Sum(inputs) % 2)
      [] gtype = "not"  -> IF inputs = <<>>
                           THEN Raise("IndexError", "list index out of range")
                           ELSE Return(IF inputs[1] # 0 THEN 0 ELSE 1)
      [] OTHER -> Raise("NotImplementedError", "gate type not supported")

evaluate_gate(gate, signal_values) ==
    IF \E i \in 1..Len(gate.inputs) : gate.inputs[i] \notin DOMAIN signal_values
    THEN Raise("ValueError", "missing input signal value")
    ELSE GateOutput(gate.gtype,
                    [i \in 1..Len(gate.inputs) |-> signal_values[gate.inputs[i]]])

Max(S) == CHOOSE m \in S : \A n \in S : n <= m

\* the order of the two loops of lines 47-48: by level from lvl to max_level,
\* gates of one level in the order of netlist.gates (gate positions)
RECURSIVE GatesByLevel(_, _, _)
GatesByLevel(gates, lvl, max_level) ==
    IF lvl > max_level THEN <<>>
    ELSE SelectSeq([g \in 1..Len(gates) |-> g], LAMBDA g : gates[g].level = lvl)
         \o GatesByLevel(gates, lvl + 1, max_level)

\* lines 47-50 on the gates still to evaluate; evaluated lists the gates
\* evaluate_gate was called on so far, in call order
RECURSIVE SimulateLoop(_, _, _, _)
SimulateLoop(gates, todo, signal_values, evaluated) ==
    IF todo = <<>>
    THEN [kind |-> "return", value |-> signal_values, evaluated |-> evaluated]
    ELSE LET gate == gates[Head(todo)]
             output_val == evaluate_gate(gate, signal_values)
         IN  IF output_val.kind # "return"
             THEN [kind |-> output_val.kind, value |-> output_val.value,
                   evaluated |-> Append(evaluated, Head(todo))]
             ELSE SimulateLoop(gates, Tail(todo),
                               [s \in DOMAIN signal_values \cup {gate.output} |->
                                   IF s = gate.output THEN output_val.value
                                   ELSE signal_values[s]],
                               Append(evaluated, Head(todo)))

simulate(nl, values) ==
    IF nl.gates = <<>>
    THEN [kind |-> "ValueError", value |-> "max() arg is an empty sequence",
          evaluated |-> <<>>]
    ELSE IF \E g \in 1..Len(nl.gates) : nl.gates[g].level = NoLevel
    THEN [kind |-> "TypeError", value |-> "level is None", evaluated |-> <<>>]
    ELSE LET max_level == Max({nl.gates[g].level : g \in 1..Len(nl.gates)})
             run == SimulateLoop(nl.gates, GatesByLevel(nl.gates, 1, max_level),
                                 values, <<>>)
         IN  IF run.kind # "return" THEN run
             ELSE [run EXCEPT !.value =
                      [out \in SeqToSet(nl.outputs) |->
                          IF out \in DOMAIN run.value THEN run.value[out]
                          ELSE NoValue]]

-----------------------------------------------------------------------------
(* The texts the driver is run on: module header, one input and one       *)
(* output declaration, named gate instances, endmodule (the shape of the  *)
(* c17 example).                                                          *)

PipelineTypes == {"nand", "not"}

RECURSIVE SeqsUpTo(_, _)
SeqsUpTo(S, n) ==
    IF n = 0 THEN {<<>>}
    ELSE LET shorter == SeqsUpTo(S, n - 1)
         IN  shorter \cup {Append(s, x) : s \in {t \in shorter : Len(t) = n - 1}, x \in S}

\* sequences of gate statements whose port lists hold at most budget identifiers
RECURSIVE GateStatements(_)
GateStatements(budget) ==
    IF budget = 0 THEN {<<>>}
    ELSE {<<>>} \cup
         UNION {{<<[head |-> ty, name |-> "G", parens |-> TRUE, ids |-> ports]>> \o rest :
                    rest \in GateStatements(budget - Len(ports)), ty \in PipelineTypes} :
                ports \in SeqsUpTo(Signals, budget) \ {<<>>}}

NameGates(stmts) ==
    [i \in 1..Len(stmts) |-> [stmts[i] EXCEPT !.name = "G" \o ToString(i)]]

ModuleLine == [head |-> "module", name |-> "c17", parens |-> TRUE, ids |-> SignalOrder]
EndModuleLine == [head |-> "endmodule", name |-> NoName, parens |-> FALSE, ids |-> <<>>]
Decl(kind, ids) == [head |-> kind, name |-> NoName, parens |-> FALSE, ids |-> ids]

PipelineTexts(budget) ==
    {<<ModuleLine, Decl("input", SubSeq(SignalOrder, 1, n)), Decl("output", SignalOrder)>>
        \o NameGates(gs) \o <<EndModuleLine>> :
     n \in 0..Len(SignalOrder), gs \in GateStatements(budget)}

\* the statements of the texts handed to the parser alone
StatementPool ==
    { ModuleLine, EndModuleLine,
      Decl("input", <<"a", "x", "a">>), Decl("Input", <<"x">>),
      Decl("output", <<"y">>), Decl("wire", <<"x">>),
      [head |-> "nand", name |-> "G1", parens |-> TRUE, ids |-> <<"y", "a", "x">>],
      [head |-> "NAND", name |-> "G2", parens |-> TRUE, ids |-> <<"y", "x">>],
      [head |-> "not", name |-> NoName, parens |-> TRUE, ids |-> <<"x", "a">>],
      [head |-> "and", name |-> "G3", parens |-> TRUE, ids |-> <<>>],
      [head |-> "assign", name |-> "y", parens |-> FALSE, ids |-> <<"a">>] }

\* every dict from some of the signal names to 0/1
Assignments == UNION {[K -> {0, 1}] : K \in SUBSET Signals}

-----------------------------------------------------------------------------
(* The driver: parse_netlist_text, assign_levels, simulate (the __main__  *)
(* blocks), a second assign_levels call, and edits of the gate objects.   *)

NoOutcome == [kind |-> "none", value |-> "none"]
NoGate == Gate("nand", NoName, "a", <<>>)
NoValues == [s \in {} |-> 0]

Start(texts) ==
    /\ text \in texts
    /\ netlist = EmptyNetlist
    /\ pc = "text"
    /\ input_values = NoValues
    /\ outcome = NoOutcome
    /\ ev_gate = NoGate
    /\ ev_values = NoValues

Init == Start(PipelineTexts(MaxPorts))

InitSim == Start(PipelineTexts(MaxSimPorts))

InitParse == Start(SeqsUpTo(StatementPool, MaxStmts))

InitEval ==
    /\ text = <<>>
    /\ netlist = EmptyNetlist
    /\ pc = "gate"
    /\ input_values = NoValues
    /\ outcome = NoOutcome
    /\ ev_gate \in {Gate(ty, "G1", "y", ins) :
                       ty \in GateTypes \cup {"buf"},
                       ins \in SeqsUpTo(Signals, MaxEvalInputs)}
    /\ ev_values \in Assignments

Parse ==
    /\ pc = "text"
    /\ netlist' = parse_netlist_text(text)
    /\ pc' = "parsed"
    /\ UNCHANGED <<text, input_values, outcome, ev_gate, ev_values>>

\* assign_levels on the freshly parsed netlist
AssignLevels ==
    /\ pc = "parsed"
    /\ LET r == assign_levels(netlist)
       IN  /\ netlist' = [netlist EXCEPT !.gates = r.gates]
           /\ pc' = IF r.raised THEN "level_error" ELSE "leveled"
    /\ UNCHANGED <<text, input_values, outcome, ev_gate, ev_values>>

\* assign_levels called again on a netlist whose gates carry levels
AssignLevelsAgain ==
    /\ pc \in {"leveled", "edited"}
    /\ LET r == assign_levels(netlist)
       IN  /\ netlist' = [netlist EXCEPT !.gates = r.gates]
           /\ pc' = IF r.raised THEN "level_error" ELSE "releveled"
    /\ UNCHANGED <<text, input_values, outcome, ev_gate, ev_values>>

Simulate ==
    /\ pc = "leveled"
    /\ \E values \in Assignments :
          /\ input_values' = values
          /\ outcome' = simulate(netlist, values)
    /\ pc' = "simulated"
    /\ UNCHANGED <<text, netlist, ev_gate, ev_values>>

Evaluate ==
    /\ pc = "gate"
    /\ outcome' = evaluate_gate(ev_gate, ev_values)
    /\ pc' = "evaluated"
    /\ UNCHANGED <<text, netlist, input_values, ev_gate, ev_values>>

\* a caller rewrites the input list of one gate of the leveled netlist
EditInputs ==
    /\ pc = "leveled"
    /\ \E g \in 1..Len(netlist.gates), ins \in SeqsUpTo(Signals, MaxSimPorts - 1) :
          /\ ins # netlist.gates[g].inputs
          /\ netlist' = [netlist EXCEPT !.gates[g].inputs = ins]
    /\ pc' = "edited"
    /\ UNCHANGED <<text, input_values, outcome, ev_gate, ev_values>>

\* a caller rewrites the output of one gate of the leveled netlist
EditOutput ==
    /\ pc = "leveled"
    /\ \E g \in 1..Len(netlist.gates), out \in Signals :
          /\ out # netlist.gates[g].output
          /\ netlist' = [netlist EXCEPT !.gates[g].output = out]
    /\ pc' = "edited"
    /\ UNCHANGED <<text, input_values, outcome, ev_gate, ev_values>>

\* a caller deletes one gate from the gate list of the leveled netlist
RemoveGate ==
    /\ pc = "leveled"
    /\ \E g \in 1..Len(netlist.gates) :
          netlist' = [netlist EXCEPT !.gates =
                         SubSeq(@, 1, g - 1) \o SubSeq(@, g + 1, Len(@))]
    /\ pc' = "edited"
    /\ UNCHANGED <<text, input_values, outcome, ev_gate, ev_values>>

Next == Parse \/ AssignLevels \/ AssignLevelsAgain
Spec == Init /\ [][Next]_vars

NextSim == Parse \/ AssignLevels \/ Simulate
SpecSim == InitSim /\ [][NextSim]_vars

NextEdit == Parse \/ AssignLevels \/ EditInputs \/ EditOutput \/ RemoveGate
            \/ AssignLevelsAgain
SpecEdit == InitSim /\ [][NextEdit]_vars

NextParse == Parse
SpecParse == InitParse /\ [][NextParse]_vars

NextEval == Evaluate
SpecEval == InitEval /\ [][NextEval]_vars

-----------------------------------------------------------------------------
(* Properties *)

Gates == netlist.gates
GateIds == 1..Len(netlist.gates)
PrimaryInputs == SeqToSet(netlist.inputs)

\* the gates whose output is one of the inputs of gate g
Drivers(g) == {d \in GateIds : Gates[d].output \in SeqToSet(Gates[g].inputs)}

\* the gates from which gate g is reached along driver edges of length >= 1
RECURSIVE Upstream(_, _)
Upstream(frontier, seen) ==
    LET more == UNION {Drivers(g) : g \in frontier} \ seen
    IN  IF more = {} THEN seen ELSE Upstream(more, seen \cup more)

DependsOnOwnOutput(g) == g \in Upstream({g}, {})

\* C1: when assign_levels returns on a parsed netlist, every gate has an
\* integer level >= 1 that is greater than the level of each gate driving one
\* of its inputs, equal to 1 + the largest driver level when it has a driver,
\* and equal to 1 when all its inputs are primary inputs.
C1_LevelsFollowDrivers ==
    pc = "leveled" =>
        \A g \in GateIds :
            /\ Gates[g].level >= 1
            /\ \A d \in Drivers(g) : Gates[g].level > Gates[d].level
            /\ Drivers(g) # {} =>
                   Gates[g].level = 1 + Max({Gates[d].level : d \in Drivers(g)})
            /\ SeqToSet(Gates[g].inputs) \subseteq PrimaryInputs =>
                   Gates[g].level = 1

\* C2: assign_levels never returns normally on a netlist in which some gate
\* depends, directly or through other gates, on its own output.
C2_CycleAlwaysRaises ==
    pc = "leveled" => \A g \in GateIds : ~DependsOnOwnOutput(g)

\* C3: when the keys of input_values are not exactly the declared primary
\* inputs, simulate raises and returns no output mapping.
C3_WrongKeysRejected ==
    (pc = "simulated" /\ DOMAIN input_values # PrimaryInputs) =>
        outcome.kind # "return"

\* C4: with exactly the declared primary inputs assigned, simulate returns a
\* mapping with one entry per declared output: 0/1 when the output is driven
\* by a gate or is a primary input, the unknown marker otherwise.
C4_OneEntryPerOutput ==
    (pc = "simulated" /\ DOMAIN input_values = PrimaryInputs) =>
        /\ outcome.kind = "return"
        /\ DOMAIN outcome.value = SeqToSet(netlist.outputs)
        /\ \A out \in SeqToSet(netlist.outputs) :
              IF out \in PrimaryInputs \/ \E g \in GateIds : Gates[g].output = out
              THEN outcome.value[out] \in {0, 1}
              ELSE outcome.value[out] = NoValue

\* C5: a parsed netlist never holds two gates with the same output signal.
C5_SingleDriver ==
    pc = "parsed" =>
        \A g, h \in GateIds : g # h => Gates[g].output # Gates[h].output

\* the reorderings of the gate list that move gates only within their level
LevelPermutations ==
    {p \in [GateIds -> GateIds] :
        /\ \A g, h \in GateIds : g # h => p[g] # p[h]
        /\ \A g \in GateIds : Gates[p[g]].level = Gates[g].level}

\* C6: the mapping simulate returns is the same for every order of the gates
\* that share a level.
C6_OrderWithinLevelIrrelevant ==
    (pc = "simulated" /\ outcome.kind = "return") =>
        \A p \in LevelPermutations :
            LET shuffled == [netlist EXCEPT !.gates = [g \in GateIds |-> Gates[p[g]]]]
                again == simulate(shuffled, input_values)
            IN  again.kind = "return" /\ again.value = outcome.value

\* the input values evaluate_gate reads for its gate argument
EvInputs == [i \in 1..Len(ev_gate.inputs) |-> ev_values[ev_gate.inputs[i]]]
Ones(inputs) == {i \in 1..Len(inputs) : inputs[i] = 1}

\* C7: on known 0/1 inputs evaluate_gate returns the value of the table:
\* and = 1 iff all inputs are 1, or = 1 iff some input is 1, nand and nor
\* their complements, xor the parity of all inputs, not the complement of
\* its single input.
C7_TruthTable ==
    (/\ pc = "evaluated"
     /\ SeqToSet(ev_gate.inputs) \subseteq DOMAIN ev_values) =>
        LET n == Len(EvInputs)
            ones == Cardinality(Ones(EvInputs))
            conj == IF ones = n THEN 1 ELSE 0
            disj == IF ones > 0 THEN 1 ELSE 0
        IN  /\ ev_gate.gtype = "and"  => outcome = Return(conj)
            /\ ev_gate.gtype = "or"   => outcome = Return(disj)
            /\ ev_gate.gtype = "nand" => outcome = Return(1 - conj)
            /\ ev_gate.gtype = "nor"  => outcome = Return(1 - disj)
            /\ ev_gate.gtype = "xor"  => outcome = Return(ones % 2)
            /\ (ev_gate.gtype = "not" /\ n = 1) => outcome = Return(1 - EvInputs[1])

C7_Witness ==
    /\ pc = "evaluated"
    /\ ev_gate.gtype = "xor"
    /\ Len(ev_gate.inputs) = 3
    /\ SeqToSet(ev_gate.inputs) \subseteq DOMAIN ev_values
    /\ Cardinality(Ones(EvInputs)) = 3
    /\ outcome = Return(1)

\* C8: a second assign_levels call on a successfully leveled, unchanged
\* netlist returns normally and leaves every gate's level as it was.
C8_RelevelIdempotent ==
    [][(pc = "leveled" /\ pc' # "leveled") =>
          (pc' = "releveled" /\ netlist' = netlist)]_vars

C8_Witness ==
    /\ pc = "releveled"
    /\ \E g \in GateIds : Gates[g].level = 2 /\ Drivers(g) # {}

Unleveled(nl) ==
    [nl EXCEPT !.gates = [g \in 1..Len(nl.gates) |-> [nl.gates[g] EXCEPT !.level = NoLevel]]]

\* C9: after an edit of the gate connections, assign_levels leaves every
\* gate with the level it gives the edited netlist when all levels start
\* unassigned.
C9_RelevelFromScratch ==
    (pc = "releveled" /\ Unleveled(netlist) # parse_netlist_text(text)) =>
        netlist.gates = assign_levels(Unleveled(netlist)).gates

\* C10: simulate on a freshly leveled netlist with every declared primary
\* input assigned evaluates gates in increasing level order, each gate with
\* all its input signals already recorded; the missing-input error of
\* evaluate_gate is never raised.
C10_InputsKnownWhenEvaluated ==
    (pc = "simulated" /\ PrimaryInputs \subseteq DOMAIN input_values) =>
        LET done == outcome.evaluated
        IN  /\ ~(outcome.kind = "ValueError"
                 /\ outcome.value = "missing input signal value")
            /\ \A k \in 1..Len(done) :
                  /\ SeqToSet(Gates[done[k]].inputs) \subseteq
                        DOMAIN input_values \cup
                            {Gates[done[j]].output : j \in 1..(k - 1)}
                  /\ \A j \in 1..(k - 1) :
                        Gates[done[j]].level <= Gates[done[k]].level

C10_Witness ==
    /\ pc = "simulated"
    /\ PrimaryInputs \subseteq DOMAIN input_values
    /\ outcome.kind = "return"
    /\ Len(outcome.evaluated) >= 2
    /\ \E g \in GateIds :
          /\ Gates[g].level = 2
          /\ \E i \in 1..Len(Gates[g].inputs) : Gates[g].inputs[i] \notin DOMAIN input_values

=============================================================================
